---------------------------- MODULE Spec2Model ----------------------------
(***************************************************************************)
(* Model of terraform-provider-googlesiteverification:                     *)
(*   - the domain-key data source (DomainKeyDataSource.Read),              *)
(*   - the site-verification resource (Create / Read / Update / Delete     *)
(*     and the remote-call helpers they use),                              *)
(*   - the pure helpers (forceDot, decodeID, EncodedID, SiteID, the        *)
(*     owner-list conversions).                                            *)
(*                                                                         *)
(* Representation of Go values:                                            *)
(*   string             a sequence of one-character strings; identifiers   *)
(*                      that are only compared whole (site type, method,   *)
(*                      project, zone, owner e-mail) are TLA+ strings, ""  *)
(*                      being Go's zero value;                             *)
(*   ID string          a sequence of byte values 0..255, because          *)
(*                      url.PathEscape / url.PathUnescape work on bytes;   *)
(*   types.String       [null |-> BOOLEAN, val |-> string], val being the  *)
(*                      zero value when null (ValueString of a null);      *)
(*   types.List         [kind |-> "null" | "unknown" | "known", elems];    *)
(*   []string           [nil |-> BOOLEAN, elems |-> sequence];             *)
(*   error              [kind |-> "nil" | "remote" | "local", code, text], *)
(*                      text being err.Error().                            *)
(***************************************************************************)
EXTENDS Integers, Sequences, FiniteSets, TLC

VARIABLES
    config,     \* the configured attributes of the resource
    state,      \* the resource's tracked (Terraform) state: resp.State
    op,         \* the last operation performed
    input,      \* the plan / prior state / config the last operation read
    calls,      \* the remote calls the last operation issued, in order
    diags,      \* resp.Diagnostics of the last operation (errors added)
    saved,      \* the last operation called resp.State.Set
    removed,    \* the last operation called resp.State.RemoveResource
    dsState,    \* the data source's resp.State
    arg,        \* argument of the last pure-helper application
    res         \* its result

vars == <<config, state, op, input, calls, diags, saved, removed, dsState, arg, res>>

-----------------------------------------------------------------------------
(* Bounds of the model *)

\* longest ID string fed to EncodedID / decodeID
MaxIdLen == 3
\* longest domain string fed to forceDot
MaxDomainLen == 3

-----------------------------------------------------------------------------
(* Generic sequence helpers (Go's strings package) *)

\* all sequences over S of length <= n
SeqsUpTo(S, n) == UNION {[1..k -> S] : k \in 0..n}

\* strings.HasSuffix
HasSuffix(s, suffix) ==
    /\ Len(s) >= Len(suffix)
    /\ SubSeq(s, Len(s) - Len(suffix) + 1, Len(s)) = suffix

\* strings.Contains
Contains(s, substr) ==
    \E i \in 0..(Len(s) - Len(substr)) : SubSeq(s, i + 1, i + Len(substr)) = substr

\* strings.TrimSuffix: drops one trailing occurrence of suffix
TrimSuffix(s, suffix) ==
    IF HasSuffix(s, suffix) THEN SubSeq(s, 1, Len(s) - Len(suffix)) ELSE s

RECURSIVE TrimLeft(_, _)
TrimLeft(s, c) ==
    IF s # <<>> /\ Head(s) = c THEN TrimLeft(Tail(s), c) ELSE s

RECURSIVE TrimRight(_, _)
TrimRight(s, c) ==
    IF s # <<>> /\ s[Len(s)] = c THEN TrimRight(SubSeq(s, 1, Len(s) - 1), c) ELSE s

\* strings.Trim(s, cutset) for a one-character cutset
Trim(s, c) == TrimRight(TrimLeft(s, c), c)

\* fmt's %d of a non-negative integer
DigitChars == <<"0", "1", "2", "3", "4", "5", "6", "7", "8", "9">>

RECURSIVE Itoa(_)
Itoa(n) ==
    IF n < 10 THEN <<DigitChars[n + 1]>>
    ELSE Itoa(n \div 10) \o <<DigitChars[(n % 10) + 1]>>

-----------------------------------------------------------------------------
(* forceDot, SiteID *)

\* a faulty variant: the dot is appended without looking at the suffix
forceDot_always(str) == str \o <<".">>

\* func forceDot(str string) string
forceDot(str) ==
    IF HasSuffix(str, <<".">>) THEN str ELSE str \o <<".">>

-----------------------------------------------------------------------------
(* url.PathEscape / url.PathUnescape on byte strings, as used by EncodedID *)
(* and decodeID (net/url, mode encodePathSegment).                         *)

\* 'a'..'z', 'A'..'Z', '0'..'9', and '-' '_' '.' '~'
IsUnreserved(c) ==
    \/ c \in 97..122 \/ c \in 65..90 \/ c \in 48..57
    \/ c \in {45, 95, 46, 126}

\* net/url shouldEscape(c, encodePathSegment): of the reserved characters
\* $ & + , / : ; = ? @ only / ; , ? are escaped; everything else that is not
\* unreserved is escaped
shouldEscape(c) ==
    IF IsUnreserved(c) THEN FALSE
    ELSE IF c \in {36, 38, 43, 58, 61, 64} THEN FALSE
    ELSE TRUE

\* "0123456789ABCDEF"[d]
upperhex(d) == IF d < 10 THEN 48 + d ELSE 55 + d

ishex(c) == c \in 48..57 \/ c \in 97..102 \/ c \in 65..70

unhex(c) ==
    IF c \in 48..57 THEN c - 48
    ELSE IF c \in 97..102 THEN c - 97 + 10
    ELSE IF c \in 65..70 THEN c - 65 + 10
    ELSE 0

RECURSIVE PathEscape(_)
PathEscape(s) ==
    IF s = <<>> THEN <<>>
    ELSE LET c == Head(s) IN
         (IF shouldEscape(c)
            THEN <<37, upperhex(c \div 16), upperhex(c % 16)>>
            ELSE <<c>>) \o PathEscape(Tail(s))

\* url.PathUnescape: [ok |-> FALSE] is the EscapeError of a '%' that is not
\* followed by two hex digits; '+' is left alone in a path segment
RECURSIVE PathUnescape(_)
PathUnescape(s) ==
    IF s = <<>> THEN [ok |-> TRUE, val |-> <<>>]
    ELSE IF Head(s) = 37
      THEN IF Len(s) < 3 \/ ~ishex(s[2]) \/ ~ishex(s[3])
             THEN [ok |-> FALSE, val |-> <<>>]
             ELSE LET rest == PathUnescape(SubSeq(s, 4, Len(s))) IN
                  IF rest.ok
                    THEN [ok |-> TRUE,
                          val |-> <<unhex(s[2]) * 16 + unhex(s[3])>> \o rest.val]
                    ELSE rest
      ELSE LET rest == PathUnescape(Tail(s)) IN
           IF rest.ok THEN [ok |-> TRUE, val |-> <<Head(s)>> \o rest.val]
           ELSE rest

\* a faulty variant: the ID is stored without escaping
EncodedID_raw(id) == id

\* func (s *SiteVerificationResourceModel) EncodedID() string
EncodedID(id) == PathEscape(id)

\* func decodeID(id string) (string, error)
decodeID(id) == PathUnescape(id)

-----------------------------------------------------------------------------
(* Framework values: types.String, types.List, Go slices, errors *)

\* types.StringValue(s)
StringValue(s) == [null |-> FALSE, val |-> s]

\* types.StringNull() of a string held as a TLA+ string / as a sequence
StringNull == [null |-> TRUE, val |-> ""]
SeqStringNull == [null |-> TRUE, val |-> <<>>]

\* a computed string that is not known yet (the ID in a create plan):
\* IsNull() is false and ValueString() is ""
SeqStringUnknown == [null |-> FALSE, val |-> <<>>]

ListNull == [kind |-> "null", elems |-> <<>>]
ListUnknown == [kind |-> "unknown", elems |-> <<>>]

\* types.ListValue(types.StringType, vals): a nil vals gives a known, empty list
ListValue(vals) == [kind |-> "known", elems |-> vals]

\* a nil []string
NilSlice == [nil |-> TRUE, elems |-> <<>>]

\* append(a, b...): appending no element returns a itself, so a nil a stays nil
GoAppend(a, b) ==
    IF b.elems = <<>> THEN a ELSE [nil |-> FALSE, elems |-> a.elems \o b.elems]

NoErr == [kind |-> "nil", code |-> 0, text |-> <<>>]

IsErr(e) == e.kind # "nil"

\* func listValueToStringSlice: `var vals []string` and one append per element,
\* so a list without elements (empty, null or unknown) gives a nil slice
listValueToStringSlice(list) ==
    IF list.elems = <<>> THEN NilSlice ELSE [nil |-> FALSE, elems |-> list.elems]

\* func stringSliceToListValue
stringSliceToListValue(vals) == ListValue(vals.elems)

\* func parseOwnersFromResponse(resp): resp is the response's Owners
parseOwnersFromResponse(owners) == ListValue(owners)

\* func parseOwnersFromData
parseOwnersFromData(data) ==
    IF data.Owners.kind = "null" THEN NilSlice
    ELSE listValueToStringSlice(data.Owners)

\* func (s *SiteVerificationResourceModel) SiteID() string
SiteID(data) == TrimSuffix(data.SiteIdentifier.val, <<".">>)

\* func (r *SiteVerificationResource) buildSiteVerification
buildSiteVerification(data, includeSite) ==
    [Site |-> IF includeSite
                THEN [present |-> TRUE,
                      Identifier |-> data.SiteIdentifier.val,
                      Type |-> data.SiteType.val]
                ELSE [present |-> FALSE, Identifier |-> <<>>, Type |-> ""],
     Owners |-> IF data.Owners.kind # "null"
                  THEN GoAppend(NilSlice, parseOwnersFromData(data))
                  ELSE NilSlice]

-----------------------------------------------------------------------------
(* Errors of the remote services *)

\* err.Error() of a googleapi.Error: "googleapi: Error <code>: <message>"
GoogleApiErrorText(code, message) ==
    <<"g","o","o","g","l","e","a","p","i",":"," ","E","r","r","o","r"," ">>
        \o Itoa(code) \o <<":", " ">> \o message

RemoteError(code, message) ==
    [kind |-> "remote", code |-> code, text |-> GoogleApiErrorText(code, message)]

\* the errors a remote call may return: not found; a permission error whose
\* message names a project whose number holds the digits 404; a server error
RemoteErrors ==
    { RemoteError(404, <<"n","o","t","F","o","u","n","d">>),
      RemoteError(403, <<"p","r","o","j","e","c","t"," ","1","4","0","4">>),
      RemoteError(500, <<"b","a","c","k","e","n","d">>) }

\* fmt.Errorf("Expected 1 TXT record, got %d", n)
ExpectedOneTxtError(n) ==
    [kind |-> "local", code |-> 0,
     text |-> <<"E","x","p","e","c","t","e","d"," ","1"," ","T","X","T"," ",
                "r","e","c","o","r","d",","," ","g","o","t"," ">> \o Itoa(n)]

\* the url.EscapeError of decodeID
EscapeError == [kind |-> "local", code |-> 0,
                text |-> <<"i","n","v","a","l","i","d"," ","U","R","L"," ",
                           "e","s","c","a","p","e">>]

\* strings.Contains(err.Error(), "404")
IsNotFound(err) == Contains(err.text, <<"4", "0", "4">>)

\* resp.Diagnostics.AddError(summary, err.Error())
Diag(summary, err) == [summary |-> summary, detail |-> err.text]

-----------------------------------------------------------------------------
(* The resource's remote-call helpers.  Each takes the model `data` and the *)
(* outcome `out` the remote service gives to the call, and returns          *)
(* [err, data, calls]: the Go error, the model as the helper leaves it and  *)
(* the remote calls issued.                                                 *)

\* the record createDNSRecord sends
TxtRecord(data) ==
    [Name |-> forceDot(data.SiteIdentifier.val),
     Rrdatas |-> <<data.Token.val>>,
     Ttl |-> 60,
     Type |-> "TXT"]

\* func (r *SiteVerificationResource) createDNSRecord
createDNSRecord(data, out) ==
    [err |-> out.err,
     data |-> data,
     calls |-> << [api |-> "DNS.Create",
                   project |-> data.Project.val,
                   location |-> "global",
                   zone |-> data.ManagedZone.val,
                   record |-> TxtRecord(data),
                   err |-> out.err] >>]

\* a faulty variant: the TXT value is stored with its quotes
readDNSRecord_rawToken(data, out) ==
    LET call == [api |-> "DNS.Get",
                 project |-> data.Project.val,
                 location |-> "global",
                 zone |-> data.ManagedZone.val,
                 name |-> data.SiteIdentifier.val,
                 type |-> "TXT",
                 err |-> out.err,
                 rrdatas |-> IF IsErr(out.err) THEN <<>> ELSE out.rrdatas]
    IN  IF IsErr(out.err)
          THEN [err |-> out.err, data |-> data, calls |-> <<call>>]
        ELSE IF Len(out.rrdatas) # 1
          THEN [err |-> ExpectedOneTxtError(Len(out.rrdatas)),
                data |-> data, calls |-> <<call>>]
        ELSE [err |-> NoErr,
              data |-> [data EXCEPT !.Token = StringValue(out.rrdatas[1])],
              calls |-> <<call>>]

\* func (r *SiteVerificationResource) readDNSRecord
readDNSRecord(data, out) ==
    LET call == [api |-> "DNS.Get",
                 project |-> data.Project.val,
                 location |-> "global",
                 zone |-> data.ManagedZone.val,
                 name |-> data.SiteIdentifier.val,
                 type |-> "TXT",
                 err |-> out.err,
                 rrdatas |-> IF IsErr(out.err) THEN <<>> ELSE out.rrdatas]
    IN  IF IsErr(out.err)
          THEN [err |-> out.err, data |-> data, calls |-> <<call>>]
        ELSE IF Len(out.rrdatas) # 1
          THEN [err |-> ExpectedOneTxtError(Len(out.rrdatas)),
                data |-> data, calls |-> <<call>>]
        ELSE [err |-> NoErr,
              data |-> [data EXCEPT !.Token =
                            StringValue(Trim(out.rrdatas[1], "\""))],
              calls |-> <<call>>]

\* func (r *SiteVerificationResource) deleteDNSRecord
deleteDNSRecord(data, out) ==
    [err |-> out.err,
     data |-> data,
     calls |-> << [api |-> "DNS.Delete",
                   project |-> data.Project.val,
                   location |-> "global",
                   zone |-> data.ManagedZone.val,
                   name |-> data.SiteIdentifier.val,
                   type |-> "TXT",
                   err |-> out.err] >>]

\* a faulty variant: the owners of the plan are kept instead of the response's
insertSiteVerification_keepOwners(data, out) ==
    LET greq == buildSiteVerification(data, TRUE)
        call == [api |-> "Site.Insert",
                 method |-> data.VerificationMethod.val,
                 request |-> greq,
                 err |-> out.err,
                 respId |-> IF IsErr(out.err) THEN <<>> ELSE out.id,
                 respOwners |-> IF IsErr(out.err) THEN <<>> ELSE out.owners]
        id == decodeID(out.id)
    IN  IF IsErr(out.err)
          THEN [err |-> out.err, data |-> data, calls |-> <<call>>]
        ELSE IF ~id.ok
          THEN [err |-> EscapeError, data |-> data, calls |-> <<call>>]
        ELSE [err |-> NoErr,
              data |-> [data EXCEPT !.Owners = stringSliceToListValue(greq.Owners),
                                    !.ID = StringValue(id.val)],
              calls |-> <<call>>]

\* func (r *SiteVerificationResource) insertSiteVerification
insertSiteVerification(data, out) ==
    LET greq == buildSiteVerification(data, TRUE)
        call == [api |-> "Site.Insert",
                 method |-> data.VerificationMethod.val,
                 request |-> greq,
                 err |-> out.err,
                 respId |-> IF IsErr(out.err) THEN <<>> ELSE out.id,
                 respOwners |-> IF IsErr(out.err) THEN <<>> ELSE out.owners]
        owned == [data EXCEPT !.Owners = parseOwnersFromResponse(out.owners)]
        id == decodeID(out.id)
    IN  IF IsErr(out.err)
          THEN [err |-> out.err, data |-> data, calls |-> <<call>>]
        ELSE IF ~id.ok
          THEN [err |-> EscapeError, data |-> owned, calls |-> <<call>>]
        ELSE [err |-> NoErr,
              data |-> [owned EXCEPT !.ID = StringValue(id.val)],
              calls |-> <<call>>]

\* func (r *SiteVerificationResource) readSiteVerification
readSiteVerification(data, out) ==
    LET call == [api |-> "Site.Get",
                 id |-> SiteID(data),
                 err |-> out.err,
                 respOwners |-> IF IsErr(out.err) THEN <<>> ELSE out.owners]
    IN  IF IsErr(out.err)
          THEN [err |-> out.err, data |-> data, calls |-> <<call>>]
        ELSE [err |-> NoErr,
              data |-> [data EXCEPT !.Owners = parseOwnersFromResponse(out.owners)],
              calls |-> <<call>>]

\* func (r *SiteVerificationResource) patchSiteVerification
patchSiteVerification(data, out) ==
    LET greq == buildSiteVerification(data, FALSE)
        call == [api |-> "Site.Patch",
                 id |-> SiteID(data),
                 request |-> greq,
                 err |-> out.err,
                 respOwners |-> IF IsErr(out.err) THEN <<>> ELSE out.owners]
    IN  IF IsErr(out.err)
          THEN [err |-> out.err, data |-> data, calls |-> <<call>>]
        ELSE [err |-> NoErr,
              data |-> [data EXCEPT !.Owners = stringSliceToListValue(greq.Owners)],
              calls |-> <<call>>]

\* func (r *SiteVerificationResource) deleteSiteVerification
deleteSiteVerification(data, out) ==
    [err |-> out.err,
     data |-> data,
     calls |-> << [api |-> "Site.Delete", id |-> SiteID(data), err |-> out.err] >>]

-----------------------------------------------------------------------------
(* The handlers.  Each returns what the operation did:                      *)
(*   calls    the remote calls issued, in order                             *)
(*   diags    the errors added to resp.Diagnostics                          *)
(*   saved    resp.State.Set was called, with `data`                        *)
(*   removed  resp.State.RemoveResource was called                          *)

Result(cs, ds, sv, rm, data) ==
    [calls |-> cs, diags |-> ds, saved |-> sv, removed |-> rm, data |-> data]

\* a helper that was not called
Skipped(data) == [err |-> NoErr, data |-> data, calls |-> <<>>]

\* the defaulting of SiteType and VerificationMethod at the head of
\* Create and Update
WithDefaults(data) ==
    [data EXCEPT
        !.SiteType = IF data.SiteType.null
                       THEN StringValue("INET_DOMAIN") ELSE data.SiteType,
        !.VerificationMethod = IF data.VerificationMethod.null
                                 THEN StringValue("DNS_TXT")
                                 ELSE data.VerificationMethod]

\* the two nested ifs that guard every DNS step
IsDnsTxt(data) ==
    /\ data.SiteType.val = "INET_DOMAIN"
    /\ data.VerificationMethod.val = "DNS_TXT"

\* Create: data.Project defaults to r.Clients.ProjectID
WithProject(data, projectID) ==
    IF data.Project.null
      THEN [data EXCEPT !.Project = StringValue(projectID)] ELSE data

\* a faulty variant: the verification is inserted first, the TXT record written after
Create_insertFirst(plan, projectID, dnsOut, insOut) ==
    LET d0 == WithDefaults(plan)
        ins == insertSiteVerification(d0, insOut)
    IN  IF IsErr(ins.err)
          THEN Result(ins.calls,
                      <<Diag("Error inserting site verification", ins.err)>>,
                      FALSE, FALSE, ins.data)
          ELSE LET dns == IF IsDnsTxt(d0)
                            THEN createDNSRecord(WithProject(ins.data, projectID), dnsOut)
                            ELSE Skipped(ins.data)
               IN  IF IsErr(dns.err)
                     THEN Result(ins.calls \o dns.calls,
                                 <<Diag("Error creating DNS record", dns.err)>>,
                                 FALSE, FALSE, dns.data)
                     ELSE Result(ins.calls \o dns.calls, <<>>, TRUE, FALSE, dns.data)

\* func (r *SiteVerificationResource) Create
Create(plan, projectID, dnsOut, insOut) ==
    LET d0 == WithDefaults(plan)
        dns == IF IsDnsTxt(d0)
                 THEN createDNSRecord(WithProject(d0, projectID), dnsOut)
                 ELSE Skipped(d0)
    IN  IF IsErr(dns.err)
          THEN Result(dns.calls, <<Diag("Error creating DNS record", dns.err)>>,
                      FALSE, FALSE, dns.data)
          ELSE LET ins == insertSiteVerification(dns.data, insOut) IN
               IF IsErr(ins.err)
                 THEN Result(dns.calls \o ins.calls,
                             <<Diag("Error inserting site verification", ins.err)>>,
                             FALSE, FALSE, ins.data)
                 ELSE Result(dns.calls \o ins.calls, <<>>, TRUE, FALSE, ins.data)

\* a faulty variant: a missing TXT record is reported as an error like any other
Read_noRemove(prior, dnsOut, siteOut) ==
    LET dns == IF IsDnsTxt(prior) THEN readDNSRecord(prior, dnsOut)
               ELSE Skipped(prior)
    IN  IF IsErr(dns.err)
          THEN Result(dns.calls, <<Diag("Error reading DNS record", dns.err)>>,
                      FALSE, FALSE, dns.data)
          ELSE LET site == readSiteVerification(dns.data, siteOut) IN
               IF IsErr(site.err)
                 THEN IF IsNotFound(site.err)
                        THEN Result(dns.calls \o site.calls, <<>>, FALSE, TRUE, site.data)
                        ELSE Result(dns.calls \o site.calls,
                                    <<Diag("Error reading site verification", site.err)>>,
                                    FALSE, FALSE, site.data)
                 ELSE Result(dns.calls \o site.calls, <<>>, TRUE, FALSE, site.data)

\* func (r *SiteVerificationResource) Read
Read(prior, dnsOut, siteOut) ==
    LET dns == IF IsDnsTxt(prior) THEN readDNSRecord(prior, dnsOut)
               ELSE Skipped(prior)
    IN  IF IsErr(dns.err)
          THEN IF IsNotFound(dns.err)
                 THEN Result(dns.calls, <<>>, FALSE, TRUE, dns.data)
                 ELSE Result(dns.calls, <<Diag("Error reading DNS record", dns.err)>>,
                             FALSE, FALSE, dns.data)
          ELSE LET site == readSiteVerification(dns.data, siteOut) IN
               IF IsErr(site.err)
                 THEN IF IsNotFound(site.err)
                        THEN Result(dns.calls \o site.calls, <<>>, FALSE, TRUE, site.data)
                        ELSE Result(dns.calls \o site.calls,
                                    <<Diag("Error reading site verification", site.err)>>,
                                    FALSE, FALSE, site.data)
                 ELSE Result(dns.calls \o site.calls, <<>>, TRUE, FALSE, site.data)

\* a faulty variant: the TXT record is written again without deleting it first
Update_noDelete(plan, delOut, createOut, patchOut) ==
    LET d0 == WithDefaults(plan)
        cre == IF IsDnsTxt(d0) THEN createDNSRecord(d0, createOut) ELSE Skipped(d0)
    IN  IF IsErr(cre.err)
          THEN Result(cre.calls, <<Diag("Error updating DNS TXT record", cre.err)>>,
                      FALSE, FALSE, cre.data)
          ELSE LET pat == patchSiteVerification(cre.data, patchOut) IN
               Result(cre.calls \o pat.calls,
                      IF IsErr(pat.err)
                        THEN <<Diag("Error updating site verification", pat.err)>>
                        ELSE <<>>,
                      TRUE, FALSE, pat.data)

\* func (r *SiteVerificationResource) Update: after a failed patch the error
\* is added and, there being no return, resp.State.Set is still called
Update(plan, delOut, createOut, patchOut) ==
    LET d0 == WithDefaults(plan)
        del == IF IsDnsTxt(d0) THEN deleteDNSRecord(d0, delOut) ELSE Skipped(d0)
    IN  IF IsErr(del.err)
          THEN Result(del.calls, <<Diag("Error deleting DNS record", del.err)>>,
                      FALSE, FALSE, del.data)
          ELSE LET cre == IF IsDnsTxt(d0) THEN createDNSRecord(del.data, createOut)
                          ELSE Skipped(del.data)
               IN  IF IsErr(cre.err)
                     THEN Result(del.calls \o cre.calls,
                                 <<Diag("Error updating DNS TXT record", cre.err)>>,
                                 FALSE, FALSE, cre.data)
                     ELSE LET pat == patchSiteVerification(cre.data, patchOut) IN
                          Result(del.calls \o cre.calls \o pat.calls,
                                 IF IsErr(pat.err)
                                   THEN <<Diag("Error updating site verification", pat.err)>>
                                   ELSE <<>>,
                                 TRUE, FALSE, pat.data)

\* a faulty variant: the verification is relinquished first, the TXT record deleted after
Delete_siteFirst(prior, delOut, siteOut) ==
    LET site == deleteSiteVerification(prior, siteOut)
        dns == IF IsDnsTxt(prior) THEN deleteDNSRecord(prior, delOut)
               ELSE Skipped(prior)
    IN  IF IsErr(site.err)
          THEN Result(site.calls,
                      <<Diag("Error relinquishing site verification", site.err)>>,
                      FALSE, FALSE, prior)
          ELSE Result(site.calls \o dns.calls,
                      IF IsErr(dns.err)
                        THEN <<Diag("Error deleting DNS record", dns.err)>> ELSE <<>>,
                      FALSE, FALSE, prior)

\* func (r *SiteVerificationResource) Delete
Delete(prior, delOut, siteOut) ==
    LET dns == IF IsDnsTxt(prior) THEN deleteDNSRecord(prior, delOut)
               ELSE Skipped(prior)
    IN  IF IsErr(dns.err)
          THEN Result(dns.calls, <<Diag("Error deleting DNS record", dns.err)>>,
                      FALSE, FALSE, dns.data)
          ELSE LET site == deleteSiteVerification(dns.data, siteOut) IN
               Result(dns.calls \o site.calls,
                      IF IsErr(site.err)
                        THEN <<Diag("Error relinquishing site verification", site.err)>>
                        ELSE <<>>,
                      FALSE, FALSE, site.data)

\* a faulty variant: the token is stored with its surrounding quotes stripped
DomainKeyRead_trimmed(cfg, out) ==
    LET d0 == WithDefaults(cfg)
        call == [api |-> "Site.GetToken",
                 identifier |-> d0.SiteIdentifier.val,
                 type |-> d0.SiteType.val,
                 method |-> d0.VerificationMethod.val,
                 err |-> out.err,
                 respToken |-> IF IsErr(out.err) THEN <<>> ELSE out.token]
    IN  IF IsErr(out.err)
          THEN Result(<<call>>,
                      <<Diag("Error retrieving verification token", out.err)>>,
                      FALSE, FALSE, d0)
          ELSE Result(<<call>>, <<>>, TRUE, FALSE,
                      [d0 EXCEPT !.Token = StringValue(Trim(out.token, "\""))])

\* func (d *DomainKeyDataSource) Read
DomainKeyRead(cfg, out) ==
    LET d0 == WithDefaults(cfg)
        call == [api |-> "Site.GetToken",
                 identifier |-> d0.SiteIdentifier.val,
                 type |-> d0.SiteType.val,
                 method |-> d0.VerificationMethod.val,
                 err |-> out.err,
                 respToken |-> IF IsErr(out.err) THEN <<>> ELSE out.token]
    IN  IF IsErr(out.err)
          THEN Result(<<call>>,
                      <<Diag("Error retrieving verification token", out.err)>>,
                      FALSE, FALSE, d0)
          ELSE Result(<<call>>, <<>>, TRUE, FALSE,
                      [d0 EXCEPT !.Token = StringValue(out.token)])

-----------------------------------------------------------------------------
(* Inputs: configurations, plans and the outcomes of the remote calls *)

\* r.Clients.ProjectID
ProviderProject == "provider-project"

\* site identifiers without and with the trailing dot
Identifiers == { <<"a", ".", "b">>, <<"a", ".", "b", ".">> }

Tokens == { <<"t">>, <<"u">> }

\* a TXT value as the DNS service returns it: in double quotes
Quoted(s) == <<"\"">> \o s \o <<"\"">>

\* owner lists of a plan or of a remote response
OwnerLists == { <<>>, <<"a@x">>, <<"b@x", "a@x">> }

\* the Rrdatas of a TXT record-set read back: none, one (quoted or not), two
RrdataSets ==
    { <<>>, << Quoted(<<"t">>) >>, << <<"u">> >>,
      << Quoted(<<"t">>), Quoted(<<"u">>) >> }

\* the Id of an insert response: "a%2Fb", which decodes to "a/b", and "%",
\* which is no valid escape
ResponseIds == { <<97, 37, 50, 70, 98>>, <<37>> }

\* the successful outcome of a call, also given to a call that is not issued
OkWrite == [err |-> NoErr]
OkGet == [err |-> NoErr, rrdatas |-> << Quoted(<<"t">>) >>]
OkInsert == [err |-> NoErr, id |-> <<97, 37, 50, 70, 98>>, owners |-> <<>>]
OkOwners == [err |-> NoErr, owners |-> <<>>]

\* outcomes of a DNS create or delete call and of the verification delete call
WriteOutcomes == { OkWrite } \cup { [err |-> e] : e \in RemoteErrors }

DnsGetOutcomes ==
    { [err |-> NoErr, rrdatas |-> r] : r \in RrdataSets }
        \cup { [err |-> e, rrdatas |-> <<>>] : e \in RemoteErrors }

InsertOutcomes ==
    { [err |-> NoErr, id |-> i, owners |-> o] : i \in ResponseIds, o \in OwnerLists }
        \cup { [err |-> e, id |-> <<>>, owners |-> <<>>] : e \in RemoteErrors }

\* outcomes of the verification get call and of the patch call
OwnersOutcomes ==
    { [err |-> NoErr, owners |-> o] : o \in OwnerLists }
        \cup { [err |-> e, owners |-> <<>>] : e \in RemoteErrors }

GetTokenOutcomes ==
    { [err |-> NoErr, token |-> t] : t \in Tokens \cup { Quoted(u) : u \in Tokens } }
        \cup { [err |-> e, token |-> <<>>] : e \in RemoteErrors }

OptionalStrings(S) == { StringNull } \cup { StringValue(v) : v \in S }

\* site type and verification method as configured: both left out, the
\* DNS_TXT verification of a domain spelled out, and two that use no DNS
TypeAndMethod ==
    { [SiteType |-> StringNull, VerificationMethod |-> StringNull],
      [SiteType |-> StringValue("INET_DOMAIN"),
       VerificationMethod |-> StringValue("DNS_TXT")],
      [SiteType |-> StringValue("INET_DOMAIN"),
       VerificationMethod |-> StringValue("FILE")],
      [SiteType |-> StringValue("SITE"), VerificationMethod |-> StringNull] }

\* the attributes of the resource whose change requires replacement: they
\* are the same in every plan of one resource
ResourceConfigs ==
    { [Project |-> p, VerificationMethod |-> tm.VerificationMethod,
       SiteIdentifier |-> StringValue(i), SiteType |-> tm.SiteType,
       ManagedZone |-> StringValue("my-zone")] :
         p \in OptionalStrings({"my-project"}), tm \in TypeAndMethod,
         i \in Identifiers }

PlanOwners == { ListNull } \cup { ListValue(o) : o \in OwnerLists }

\* a plan: the configured attributes, with the token, the owners and the ID
Plan(cfg, token, owners, id) ==
    [ Project |-> cfg.Project,
      VerificationMethod |-> cfg.VerificationMethod,
      SiteIdentifier |-> cfg.SiteIdentifier,
      SiteType |-> cfg.SiteType,
      Token |-> StringValue(token),
      ManagedZone |-> cfg.ManagedZone,
      Owners |-> owners,
      ID |-> id ]

\* the plans of Create: owners may be unknown, the ID is not known yet
CreatePlans(cfg) ==
    { Plan(cfg, t, o, SeqStringUnknown) :
        t \in Tokens, o \in PlanOwners \cup { ListUnknown } }

\* the plans of Update: token and owners change in place
UpdatePlans(cfg, data) ==
    { Plan(cfg, t, o, data.ID) : t \in Tokens, o \in PlanOwners }

\* the configurations of the data source
DomainKeyConfigs ==
    [ VerificationMethod : OptionalStrings({"DNS_TXT", "FILE"}),
      SiteIdentifier : { StringValue(i) : i \in Identifiers },
      SiteType : OptionalStrings({"INET_DOMAIN", "SITE"}),
      Token : { SeqStringNull } ]

ZeroData ==
    [ Project |-> StringNull, VerificationMethod |-> StringNull,
      SiteIdentifier |-> SeqStringNull, SiteType |-> StringNull,
      Token |-> SeqStringNull, ManagedZone |-> StringNull,
      Owners |-> ListNull, ID |-> SeqStringNull ]

ZeroConfig ==
    [ Project |-> StringNull, VerificationMethod |-> StringNull,
      SiteIdentifier |-> SeqStringNull, SiteType |-> StringNull,
      ManagedZone |-> StringNull ]

\* no tracked resource
Absent == [present |-> FALSE, data |-> ZeroData]

Tracked(data) == [present |-> TRUE, data |-> data]

\* ID strings and domain strings for the pure helpers; the ID bytes are
\* '/', '%', '?', ' ', '+', 'a', '2', 'F' and the non-ASCII byte 0xC3
IdBytes == {47, 37, 63, 32, 43, 97, 50, 70, 195}
IdStrings == SeqsUpTo(IdBytes, MaxIdLen)
DomainStrings == SeqsUpTo({"a", ".", "-"}, MaxDomainLen)

NoArg == [fn |-> "none", id |-> <<>>, domain |-> <<>>]

-----------------------------------------------------------------------------
(* The state machine of one resource *)

\* nothing has run yet
Idle ==
    /\ state = Absent
    /\ op = "none"
    /\ input = ZeroData
    /\ calls = <<>>
    /\ diags = <<>>
    /\ saved = FALSE
    /\ removed = FALSE
    /\ dsState = Absent
    /\ res = <<>>

Init ==
    /\ Idle
    /\ config \in ResourceConfigs
    /\ arg = NoArg

\* what an operation of the resource leaves behind
Record(name, in, r, tracked) ==
    /\ op' = name
    /\ input' = in
    /\ calls' = r.calls
    /\ diags' = r.diags
    /\ saved' = r.saved
    /\ removed' = r.removed
    /\ state' = tracked
    /\ UNCHANGED <<config, dsState, arg, res>>

\* resp.State after Create, Read or Update: removed, set, or as it was
StateAfter(r) ==
    IF r.removed THEN Absent
    ELSE IF r.saved THEN Tracked(r.data)
    ELSE state

\* whether the operation r issued a call to api
Issued(r, api) == \E i \in DOMAIN r.calls : r.calls[i].api = api

\* the remote service decides the outcome of the calls that are issued; a
\* call that is not issued has no outcome to choose
OutcomesIf(issued, outcomes, ok) == IF issued THEN outcomes ELSE { ok }

DoCreate ==
    /\ ~state.present
    /\ \E plan \in CreatePlans(config) :
       \E dnsOut \in OutcomesIf(
               Issued(Create(plan, ProviderProject, OkWrite, OkInsert), "DNS.Create"),
               WriteOutcomes, OkWrite) :
       \E insOut \in OutcomesIf(
               Issued(Create(plan, ProviderProject, dnsOut, OkInsert), "Site.Insert"),
               InsertOutcomes, OkInsert) :
         LET r == Create(plan, ProviderProject, dnsOut, insOut) IN
         Record("Create", plan, r, StateAfter(r))

DoRead ==
    /\ state.present
    /\ \E dnsOut \in OutcomesIf(
               Issued(Read(state.data, OkGet, OkOwners), "DNS.Get"),
               DnsGetOutcomes, OkGet) :
       \E siteOut \in OutcomesIf(
               Issued(Read(state.data, dnsOut, OkOwners), "Site.Get"),
               OwnersOutcomes, OkOwners) :
         LET r == Read(state.data, dnsOut, siteOut) IN
         Record("Read", state.data, r, StateAfter(r))

DoUpdate ==
    /\ state.present
    /\ \E plan \in UpdatePlans(config, state.data) :
       \E delOut \in OutcomesIf(
               Issued(Update(plan, OkWrite, OkWrite, OkOwners), "DNS.Delete"),
               WriteOutcomes, OkWrite) :
       \E createOut \in OutcomesIf(
               Issued(Update(plan, delOut, OkWrite, OkOwners), "DNS.Create"),
               WriteOutcomes, OkWrite) :
       \E patchOut \in OutcomesIf(
               Issued(Update(plan, delOut, createOut, OkOwners), "Site.Patch"),
               OwnersOutcomes, OkOwners) :
         LET r == Update(plan, delOut, createOut, patchOut) IN
         Record("Update", plan, r, StateAfter(r))

\* after a Delete that added no error the resource leaves the tracked state
DoDelete ==
    /\ state.present
    /\ \E delOut \in OutcomesIf(
               Issued(Delete(state.data, OkWrite, OkWrite), "DNS.Delete"),
               WriteOutcomes, OkWrite) :
       \E siteOut \in OutcomesIf(
               Issued(Delete(state.data, delOut, OkWrite), "Site.Delete"),
               WriteOutcomes, OkWrite) :
         LET r == Delete(state.data, delOut, siteOut) IN
         Record("Delete", state.data, r, IF r.diags = <<>> THEN Absent ELSE state)

Next == DoCreate \/ DoRead \/ DoUpdate \/ DoDelete

Spec == Init /\ [][Next]_vars

-----------------------------------------------------------------------------
(* The data source: every read starts from an empty resp.State *)

InitDomainKey ==
    /\ Idle
    /\ config = ZeroConfig
    /\ arg = NoArg

DoDomainKeyRead ==
    \E cfg \in DomainKeyConfigs, out \in GetTokenOutcomes :
        LET r == DomainKeyRead(cfg, out) IN
        /\ op' = "DomainKeyRead"
        /\ input' = cfg
        /\ calls' = r.calls
        /\ diags' = r.diags
        /\ saved' = r.saved
        /\ removed' = r.removed
        /\ dsState' = IF r.saved THEN Tracked(r.data) ELSE Absent
        /\ UNCHANGED <<state, config, arg, res>>

NextDomainKey == DoDomainKeyRead

SpecDomainKey == InitDomainKey /\ [][NextDomainKey]_vars

-----------------------------------------------------------------------------
(* The pure helpers, applied once to every input within the bounds *)

InitHelpers ==
    /\ Idle
    /\ config = ZeroConfig
    /\ arg \in { [fn |-> "id", id |-> id, domain |-> <<>>] : id \in IdStrings }
                 \cup { [fn |-> "domain", id |-> <<>>, domain |-> s] : s \in DomainStrings }

ApplyIdRoundTrip ==
    /\ op = "none"
    /\ arg.fn = "id"
    /\ op' = "decodeID(EncodedID)"
    /\ res' = [encoded |-> EncodedID(arg.id),
               decoded |-> decodeID(EncodedID(arg.id))]
    /\ UNCHANGED <<state, config, input, calls, diags, saved, removed, dsState, arg>>

ApplyDecodeID ==
    /\ op = "none"
    /\ arg.fn = "id"
    /\ op' = "decodeID"
    /\ res' = decodeID(arg.id)
    /\ UNCHANGED <<state, config, input, calls, diags, saved, removed, dsState, arg>>

ApplyForceDot ==
    /\ op = "none"
    /\ arg.fn = "domain"
    /\ op' = "forceDot"
    /\ res' = [once |-> forceDot(arg.domain),
               twice |-> forceDot(forceDot(arg.domain))]
    /\ UNCHANGED <<state, config, input, calls, diags, saved, removed, dsState, arg>>

NextHelpers == ApplyIdRoundTrip \/ ApplyDecodeID \/ ApplyForceDot

SpecHelpers == InitHelpers /\ [][NextHelpers]_vars

-----------------------------------------------------------------------------
(* The provider: Configure resolves the credentials and builds the clients *)

\* types.Int64Null() and a known types.Int64
Int64Null == [null |-> TRUE, val |-> 0]
Int64Value(n) == [null |-> FALSE, val |-> n]

\* basetypes.StringValue.String() of a known value: the value in double quotes
StringerString(v) == "\"" \o v.val \o "\""

\* an error of a library call of Configure
LibraryError(text) == [kind |-> "local", code |-> 0, text |-> text]

\* the identity behind the ambient credentials
AmbientIdentity == "user@x"

\* *google.Credentials as FindDefaultCredentials returns them
AmbientCredentials(projectID) ==
    [TokenSource |-> [kind |-> "ambient", identity |-> AmbientIdentity,
                      lifetime |-> 0, scope |-> {}],
     ProjectID |-> projectID]

\* the scopes impersonateServiceAccount asks the access token for
ImpersonationScope == {"siteverification", "siteverification.verify_only",
                       "ndev.clouddns.readwrite"}

\* func impersonateServiceAccount: [err, creds, calls]; out is the outcome of
\* NewIamCredentialsClient and of GenerateAccessToken
impersonateServiceAccount(srcCreds, serviceAccount, durationSeconds, out) ==
    LET new == [api |-> "NewIamCredentialsClient", creds |-> srcCreds,
                err |-> out.client]
        gen == [api |-> "GenerateAccessToken",
                name |-> "projects/-/serviceAccounts/" \o serviceAccount,
                scope |-> ImpersonationScope,
                lifetime |-> durationSeconds,
                err |-> out.token]
    IN  IF IsErr(out.client)
          THEN [err |-> LibraryError("failed to create credentials client: "
                                        \o out.client.text),
                creds |-> srcCreds, calls |-> <<new>>]
        ELSE IF IsErr(out.token)
          THEN [err |-> LibraryError("failed to generate access token for service account: "
                                        \o out.token.text),
                creds |-> srcCreds, calls |-> <<new, gen>>]
        ELSE [err |-> NoErr,
              creds |-> [TokenSource |-> [kind |-> "static",
                                          identity |-> serviceAccount,
                                          lifetime |-> durationSeconds,
                                          scope |-> ImpersonationScope],
                         ProjectID |-> ""],
              calls |-> <<new, gen>>]

\* a generated API client: the service it talks to, the credentials and the
\* scopes it was built with
Service(name, creds, scopes) == [service |-> name, creds |-> creds, scopes |-> scopes]

\* resp.ResourceData when Configure returned early
NoClients == [configured |-> FALSE]

\* type SiteVerificationClients
SiteVerificationClients(projectID, defaultOwner, site, dns) ==
    [configured |-> TRUE, ProjectID |-> projectID, DefaultOwner |-> defaultOwner,
     SiteVerification |-> site, DNS |-> dns]

\* what Configure leaves behind: the calls, the diagnostics, the clients
Configured(cs, ds, clients) == [calls |-> cs, diags |-> ds, clients |-> clients]

\* func (p *GoogleSiteVerificationProvider) Configure; env holds the outcome
\* of every library call the handler may issue
Configure(data, env) ==
    LET find == [api |-> "FindDefaultCredentials", err |-> env.find.err]
        defaultCreds == AmbientCredentials(env.find.projectID)
        impersonate == ~data.ImpersonateServiceAccount.null
        duration == IF data.TokenDuration.null THEN 3600 ELSE data.TokenDuration.val
        imp == IF impersonate
                 THEN impersonateServiceAccount(defaultCreds,
                          data.ImpersonateServiceAccount.val, duration, env.imp)
                 ELSE [err |-> NoErr, creds |-> defaultCreds, calls |-> <<>>]
        owner0 == IF impersonate THEN data.ImpersonateServiceAccount.val ELSE ""
        SetProject(c) == IF data.Project.null THEN c
                         ELSE [c EXCEPT !.ProjectID = StringerString(data.Project)]
        ambient == SetProject(defaultCreds)
        creds == SetProject(imp.creds)
        oauth == [api |-> "oauth2.NewService", creds |-> creds,
                  scopes |-> {"openid"}, err |-> env.oauth]
        info == [api |-> "Tokeninfo", err |-> env.tokeninfo,
                 email |-> IF IsErr(env.tokeninfo) THEN ""
                           ELSE creds.TokenSource.identity]
        lookup == IF owner0 # "" THEN <<>>
                  ELSE IF IsErr(env.oauth) THEN <<oauth>> ELSE <<oauth, info>>
        lookupDiag ==
            IF owner0 # "" THEN <<>>
            ELSE IF IsErr(env.oauth)
              THEN <<Diag("Failed to create oauth2 client", env.oauth)>>
            ELSE IF IsErr(env.tokeninfo)
              THEN <<Diag("Failed to get token info", env.tokeninfo)>>
            ELSE <<>>
        defaultOwner == IF owner0 # "" THEN owner0 ELSE info.email
        siteScopes == {"siteverification", "siteverification.verify_only"}
        dnsScopes == {"ndev.clouddns.readwrite"}
        site == [api |-> "sitev1.NewService", creds |-> creds,
                 scopes |-> siteScopes, err |-> env.site]
        dns == [api |-> "dnsv2.NewService", creds |-> ambient,
                scopes |-> dnsScopes, err |-> env.dns]
        head == <<find>> \o imp.calls \o lookup
    IN  IF IsErr(env.find.err)
          THEN Configured(<<find>>,
                   <<Diag("Failed to load default credentials", env.find.err)>>,
                   NoClients)
        ELSE IF IsErr(imp.err)
          THEN Configured(<<find>> \o imp.calls,
                   <<Diag("Failed to build credentials", imp.err)>>, NoClients)
        ELSE IF lookupDiag # <<>>
          THEN Configured(head, lookupDiag, NoClients)
        ELSE IF IsErr(env.site)
          THEN Configured(head \o <<site>>,
                   <<Diag("Failed to create siteverification client", env.site)>>,
                   NoClients)
        ELSE IF IsErr(env.dns)
          THEN Configured(head \o <<site, dns>>,
                   <<Diag("Failed to create dns client", env.dns)>>, NoClients)
        ELSE Configured(head \o <<site, dns>>, <<>>,
                 SiteVerificationClients(creds.ProjectID, defaultOwner,
                     Service("siteverification", creds, siteScopes),
                     Service("dns", ambient, dnsScopes)))

\* the provider configurations: project, impersonate_service_account and
\* token_duration, each omitted or set
ProviderConfigs ==
    [ Project : {StringNull, StringValue("my-project")},
      ImpersonateServiceAccount : {StringNull, StringValue("sa-1@x"), StringValue("sa-2@x")},
      TokenDuration : {Int64Null, Int64Value(600), Int64Value(7200)} ]

\* a library call succeeds or fails
LibraryOutcomes == {NoErr, LibraryError("unavailable")}

\* the outcomes of the library calls of one Configure
Environments ==
    [ find : [err : {NoErr}, projectID : {"", "ambient-project"}]
               \cup {[err |-> LibraryError("could not find default credentials"),
                      projectID |-> ""]},
      imp : { [client |-> NoErr, token |-> NoErr],
              [client |-> LibraryError("unavailable"), token |-> NoErr],
              [client |-> NoErr, token |-> LibraryError("permission denied")] },
      oauth : LibraryOutcomes,
      tokeninfo : LibraryOutcomes,
      site : LibraryOutcomes,
      dns : LibraryOutcomes ]

InitConfigure ==
    /\ Idle
    /\ config = ZeroConfig
    /\ arg = NoArg

\* Configure runs once in the life of the provider process
DoConfigure ==
    \E data \in ProviderConfigs, env \in Environments :
        LET r == Configure(data, env) IN
        /\ op = "none"
        /\ op' = "Configure"
        /\ input' = data
        /\ calls' = r.calls
        /\ diags' = r.diags
        /\ res' = r.clients
        /\ UNCHANGED <<state, config, saved, removed, dsState, arg>>

NextConfigure == DoConfigure

SpecConfigure == InitConfigure /\ [][NextConfigure]_vars

-----------------------------------------------------------------------------
(* Properties *)

\* the last operation issued a call to api
HasCall(api) == \E i \in DOMAIN calls : calls[i].api = api

\* the last operation worked on a DNS_TXT verification of an INET_DOMAIN site
OnDnsTxt == IsDnsTxt(WithDefaults(input))

\* the call failed with the remote status not-found
FailedNotFound(call) == call.err.kind = "remote" /\ call.err.code = 404

\* C1: in Create of an INET_DOMAIN / DNS_TXT resource the DNS create call is
\* the first call and every insert call comes after it; when the DNS create
\* call fails, no insert call is issued and no state is saved.
C1_CreateDnsBeforeInsert ==
    (op = "Create" /\ OnDnsTxt) =>
        /\ calls # <<>>
        /\ calls[1].api = "DNS.Create"
        /\ \A i \in DOMAIN calls :
              calls[i].api = "Site.Insert" =>
                  \E j \in 1..(i - 1) : calls[j].api = "DNS.Create"
        /\ IsErr(calls[1].err) =>
              /\ ~HasCall("Site.Insert")
              /\ ~saved
              /\ ~state.present

\* C1 witness: a Create that wrote the TXT record, inserted the verification
\* and saved the state
C1_Witness ==
    /\ op = "Create" /\ OnDnsTxt
    /\ Len(calls) = 2
    /\ calls[2].api = "Site.Insert"
    /\ saved

\* C2: in Delete of a DNS_TXT resource the DNS delete call is the first call;
\* when it fails the operation ends with an error and no verification delete
\* is issued; when it succeeds the verification delete follows, and its
\* failure is reported as an error without any call that re-creates the record.
C2_DeleteDnsBeforeSite ==
    (op = "Delete" /\ OnDnsTxt) =>
        /\ calls # <<>>
        /\ calls[1].api = "DNS.Delete"
        /\ IsErr(calls[1].err) =>
              /\ Len(calls) = 1
              /\ diags = <<Diag("Error deleting DNS record", calls[1].err)>>
              /\ state.present
        /\ ~IsErr(calls[1].err) =>
              /\ Len(calls) = 2
              /\ calls[2].api = "Site.Delete"
              /\ IsErr(calls[2].err) =>
                    /\ diags = <<Diag("Error relinquishing site verification",
                                      calls[2].err)>>
                    /\ ~HasCall("DNS.Create")

\* C2 witness: a Delete whose DNS delete succeeded and whose verification
\* delete failed
C2_Witness ==
    /\ op = "Delete" /\ OnDnsTxt
    /\ Len(calls) = 2
    /\ ~IsErr(calls[1].err)
    /\ IsErr(calls[2].err)

\* C3: in Read of a DNS_TXT resource, when the TXT lookup fails with status
\* not-found, the resource is removed from the tracked state, no error is
\* reported and no verification get call is issued.
C3_ReadDnsNotFoundRemoves ==
    (op = "Read" /\ OnDnsTxt /\ calls # <<>> /\ calls[1].api = "DNS.Get"
        /\ FailedNotFound(calls[1])) =>
        /\ removed
        /\ ~saved
        /\ ~state.present
        /\ diags = <<>>
        /\ ~HasCall("Site.Get")

\* C3 witness: a Read whose TXT lookup failed with not-found
C3_Witness ==
    /\ op = "Read" /\ OnDnsTxt
    /\ calls # <<>> /\ calls[1].api = "DNS.Get"
    /\ FailedNotFound(calls[1])

AskedType == IF input.SiteType.null THEN "INET_DOMAIN" ELSE input.SiteType.val
AskedMethod ==
    IF input.VerificationMethod.null THEN "DNS_TXT" ELSE input.VerificationMethod.val

\* C5: the domain-key lookup issues exactly one token-issuance call, for the
\* site identifier, type and method of the configuration with the defaults
\* filled in; when the call succeeds the stored token is the token of the
\* response, when it fails an error is reported and no state is written.
C5_DomainKeyToken ==
    op = "DomainKeyRead" =>
        /\ Len(calls) = 1
        /\ calls[1].api = "Site.GetToken"
        /\ calls[1].identifier = input.SiteIdentifier.val
        /\ calls[1].type = AskedType
        /\ calls[1].method = AskedMethod
        /\ IF IsErr(calls[1].err)
             THEN /\ diags = <<Diag("Error retrieving verification token",
                                    calls[1].err)>>
                  /\ ~saved
                  /\ ~dsState.present
             ELSE /\ diags = <<>>
                  /\ saved
                  /\ dsState.present
                  /\ dsState.data.Token = StringValue(calls[1].respToken)
                  /\ dsState.data.SiteType = StringValue(AskedType)
                  /\ dsState.data.VerificationMethod = StringValue(AskedMethod)

\* C5 witness: a lookup with type and method left out whose response token
\* is wrapped in double quotes
C5_Witness ==
    /\ op = "DomainKeyRead"
    /\ input.SiteType.null /\ input.VerificationMethod.null
    /\ dsState.present
    /\ dsState.data.Token.val = Quoted(<<"t">>)

\* C6 (as claimed): Read removes the resource only when a remote call
\* failed with status not-found; every other failure adds an error and
\* leaves the resource tracked.
C6_ReadRemovesOnlyOnNotFound ==
    op = "Read" =>
        /\ removed => \E i \in DOMAIN calls : FailedNotFound(calls[i])
        /\ (~removed /\ ~saved) => diags # <<>>

\* C7 (as claimed): in every operation of the resource a failed remote call
\* is the last call of the operation and the operation does not write the
\* tracked state.
C7_FailureHaltsOperation ==
    op \in {"Create", "Read", "Update", "Delete"} =>
        \A i \in DOMAIN calls :
            IsErr(calls[i].err) => (i = Len(calls) /\ ~saved)

\* C8: decodeID(EncodedID(id)) returns id, without error, for every ID string.
C8_IdRoundTrip ==
    op = "decodeID(EncodedID)" =>
        /\ res.decoded.ok
        /\ res.decoded.val = arg.id

\* C8 witness: the ID "%2F", whose encoding "%252F" differs from it
C8_Witness ==
    /\ op = "decodeID(EncodedID)"
    /\ arg.id = <<37, 50, 70>>
    /\ res.encoded = <<37, 50, 53, 50, 70>>

\* C9: forceDot(s) is s when s ends with "." and s followed by "." otherwise,
\* and forceDot(forceDot(s)) = forceDot(s).
C9_ForceDot ==
    op = "forceDot" =>
        /\ res.once = IF arg.domain # <<>> /\ arg.domain[Len(arg.domain)] = "."
                        THEN arg.domain
                        ELSE Append(arg.domain, ".")
        /\ res.twice = res.once

\* C9 witness: a domain without the trailing dot, which forceDot extends
C9_Witness ==
    /\ op = "forceDot"
    /\ arg.domain = <<"a", ".", "a">>
    /\ res.once = <<"a", ".", "a", ".">>

\* C10 (as claimed): the insert or patch request built from a null owner
\* list has no owners field, and the one built from an explicit empty list
\* differs from it: its owners field is present and empty.
C10_NullVersusEmptyOwners ==
    \A i \in DOMAIN calls :
        calls[i].api \in {"Site.Insert", "Site.Patch"} =>
            /\ input.Owners = ListNull => calls[i].request.Owners = NilSlice
            /\ input.Owners = ListValue(<<>>) =>
                  calls[i].request.Owners = [nil |-> FALSE, elems |-> <<>>]

\* the last operation is a Read of a DNS_TXT resource whose TXT lookup
\* succeeded
ReadGotTxt ==
    /\ op = "Read" /\ OnDnsTxt
    /\ calls # <<>>
    /\ calls[1].api = "DNS.Get"
    /\ ~IsErr(calls[1].err)

C12_UpdateCallOrder ==
    (op = "Update" /\ OnDnsTxt) =>
        /\ calls # <<>>
        /\ calls[1].api = "DNS.Delete"
        /\ IsErr(calls[1].err) => Len(calls) = 1
        /\ ~IsErr(calls[1].err) =>
              /\ Len(calls) >= 2
              /\ calls[2].api = "DNS.Create"
              /\ calls[2].record.Rrdatas = <<input.Token.val>>
              /\ IsErr(calls[2].err) => Len(calls) = 2
              /\ ~IsErr(calls[2].err) =>
                    /\ Len(calls) = 3
                    /\ calls[3].api = "Site.Patch"
                    /\ calls[3].request.Owners.elems = input.Owners.elems

\* C12 witness: an Update whose plan holds the token already tracked; the
\* record was deleted and the create call, which failed, was issued
C12_Witness ==
    /\ op = "Update" /\ OnDnsTxt
    /\ ~saved
    /\ state.present
    /\ input.Token = state.data.Token
    /\ Len(calls) = 2
    /\ calls[1].api = "DNS.Delete"
    /\ calls[2].api = "DNS.Create"
    /\ calls[2].record.Rrdatas = <<state.data.Token.val>>

\* the credentials the client of Configure's result was built with are the
\* impersonated ones when impersonation is configured, the ambient ones otherwise
UsesResolved(client) ==
    IF input.ImpersonateServiceAccount.null
      THEN client.creds.TokenSource.kind = "ambient"
      ELSE /\ client.creds.TokenSource.kind = "static"
           /\ client.creds.TokenSource.identity = input.ImpersonateServiceAccount.val

\* C13: after a Configure that built the clients, the site-verification
\* client and the DNS client both hold the resolved credentials: the
\* impersonated ones when impersonation is configured, the ambient ones
\* when it is not.
C13_BothClientsUseResolvedCredentials ==
    (op = "Configure" /\ res.configured) =>
        /\ UsesResolved(res.SiteVerification)
        /\ UsesResolved(res.DNS)
        /\ res.DNS.creds = res.SiteVerification.creds

\* the record name a DNS call names: the Name of the record it writes, or the
\* name it looks up or deletes
DnsName(call) == IF call.api = "DNS.Create" THEN call.record.Name ELSE call.name

IsDnsCall(call) == call.api \in {"DNS.Create", "DNS.Get", "DNS.Delete"}

\* C14: every DNS call of a DNS_TXT resource, the lookup of Read and the
\* deletes of Delete and Update included, names the record under the name
\* Create and Update's re-create write it: the site identifier with one
\* trailing dot, whether or not the identifier was given with the dot.
C14_SameRecordName ==
    OnDnsTxt =>
        \A i \in DOMAIN calls :
            IsDnsCall(calls[i]) =>
                DnsName(calls[i]) = forceDot(config.SiteIdentifier.val)

\* a Delete of a DNS_TXT resource deleted the TXT record and then failed to
\* delete the verification
DeleteHalfDone ==
    /\ op = "Delete" /\ OnDnsTxt
    /\ Len(calls) = 2
    /\ calls[1].api = "DNS.Delete" /\ ~IsErr(calls[1].err)
    /\ calls[2].api = "Site.Delete" /\ IsErr(calls[2].err)

\* C15: when a Delete has removed the TXT record and failed to delete the
\* verification, the next Delete of the resource, to which the DNS service
\* answers not-found for the absent record, still issues the verification
\* delete call.
C15_DeleteRetryReachesVerification ==
    [][ ( /\ DeleteHalfDone
          /\ op' = "Delete"
          /\ calls' # <<>>
          /\ calls'[1].api = "DNS.Delete"
          /\ FailedNotFound(calls'[1]) )
        => \E i \in DOMAIN calls' : calls'[i].api = "Site.Delete" ]_vars

\* the project under which Create writes the TXT record of the resource
CreateProject ==
    IF config.Project.null THEN ProviderProject ELSE config.Project.val

\* C16: every DNS call made for a DNS_TXT resource, the delete and the create
\* of Update included, targets the project under which Create wrote the TXT
\* record: the configured project, or the provider project when the
\* configured project is null.
C16_SameProject ==
    OnDnsTxt =>
        \A i \in DOMAIN calls :
            IsDnsCall(calls[i]) => calls[i].project = CreateProject

=============================================================================
